---------------------------- MODULE Spec2Model ----------------------------
(***************************************************************************)
(* A model of src/app.py, the NekoNi2 Discord bot: the command table built *)
(* by the @bot.command decorators, the dispatcher's preparation of an      *)
(* invocation (command lookup, permission check, argument conversion), the *)
(* handler bodies, the on_command_error hook and the on_member_join event. *)
(*                                                                         *)
(* Every outbound request a handler issues is appended to the invocation's *)
(* log `out`, in the order the code awaits it.  Remote mutation calls      *)
(* (delete, purge, kick, ban, fetch_user, unban, add_roles, remove_roles)  *)
(* may fail; message sends are logged as issued.                           *)
(***************************************************************************)
EXTENDS Integers, Sequences, FiniteSets, TLC

VARIABLES
    PREFIX,           \* app.py:15, the configured command prefix
    WELCOME_CHANNEL,  \* app.py:17, the configured welcome channel name
    pc,               \* position of each invocation
    ctx,              \* commands.Context of each invocation: name, caller permissions, raw arguments
    vals,             \* the converted arguments handed to the handler body
    error,            \* the error delivered to on_command_error
    out,              \* the outbound requests each invocation has issued, in order
    runs,             \* how many times the handler body of each invocation was entered
    deleted,          \* clear's local `deleted`, the list purge returned
    history,          \* the channel's messages, newest last
    draws,            \* number of draws taken from the random module
    text_channels,    \* guild.text_channels, in the guild's order
    joined,           \* members whose join event was delivered
    greetings         \* messages on_member_join sent: channel index and mentioned member

vars == <<PREFIX, WELCOME_CHANNEL, pc, ctx, vals, error, out, runs, deleted,
          history, draws, text_channels, joined, greetings>>

cmdVars == <<pc, ctx, vals, error, out, runs, deleted, history, draws>>
joinVars == <<text_channels, joined, greetings>>

---------------------------------------------------------------------------
(* Bounds of the model *)

NumInvocations == 2
MaxHistory == 2
MaxChannels == 2

(* Program constants *)

MinAmount == 1
MaxAmount == 200
DefaultAmount == 10
MinSides == 2
MaxSides == 1000000
DefaultSides == 6

Invocations == 1..NumInvocations

Prefixes == {"!", "?"}
ChannelNames == {"general", "welcome"}
Members == {"alice", "bob"}

Permissions == {"manage_messages", "kick_members", "ban_members", "manage_roles"}

---------------------------------------------------------------------------
(* Raw argument tokens.  `kind` says what the token resolves to in the     *)
(* guild: an integer literal, a member, a role, or a plain word.           *)

IntTok(n) == [kind |-> "int", n |-> n, s |-> ""]
StrTok(k, s) == [kind |-> k, n |-> 0, s |-> s]

IntSamples == {MinAmount - 1, MinAmount, MaxAmount, MaxAmount + 1,
               MinSides - 1, MinSides, MaxSides, MaxSides + 1}

Tokens == {IntTok(n) : n \in IntSamples}
          \cup {StrTok("member", "alice"), StrTok("role", "mod"), StrTok("text", "hello")}

(* Errors: the class, the parameter of a MissingRequiredArgument, and the  *)
(* class of the exception a CommandInvokeError wraps.                      *)

Err(class, param, original) == [class |-> class, param |-> param, original |-> original]
NoError == Err("None", "", "")

(* The exception classes the hook distinguishes, with their base class.    *)
Base(class) ==
    CASE class = "CommandNotFound" -> "CommandError"
      [] class = "CheckFailure" -> "CommandError"
      [] class = "MissingPermissions" -> "CheckFailure"
      [] class = "BotMissingPermissions" -> "CheckFailure"
      [] class = "NoPrivateMessage" -> "CheckFailure"
      [] class = "UserInputError" -> "CommandError"
      [] class = "MissingRequiredArgument" -> "UserInputError"
      [] class = "TooManyArguments" -> "UserInputError"
      [] class = "BadArgument" -> "UserInputError"
      [] class = "MemberNotFound" -> "BadArgument"
      [] class = "RoleNotFound" -> "BadArgument"
      [] class = "ArgumentParsingError" -> "UserInputError"
      [] class = "CommandInvokeError" -> "CommandError"
      [] class = "CommandOnCooldown" -> "CommandError"
      [] class = "CommandError" -> "DiscordException"
      [] class = "HTTPException" -> "DiscordException"
      [] class = "Forbidden" -> "HTTPException"
      [] class = "NotFound" -> "HTTPException"
      [] class = "DiscordException" -> "Exception"
      [] class = "ValueError" -> "Exception"
      [] OTHER -> ""

RECURSIVE IsSubclass(_, _)
IsSubclass(class, of) ==
    IF class = of THEN TRUE
    ELSE IF Base(class) = "" THEN FALSE
    ELSE IsSubclass(Base(class), of)

isinstance(e, class) == IsSubclass(e.class, class)

---------------------------------------------------------------------------
(* The command table the decorators build. *)

Param(name, conv, required, rest, default) ==
    [name |-> name, conv |-> conv, required |-> required, rest |-> rest, default |-> default]

CommandNames == {"ping", "say", "avatar", "serverinfo", "userinfo", "clear", "kick",
                 "ban", "unban", "addrole", "removerole", "8ball", "coin", "roll", "help"}

Aliases(cmd) ==
    CASE cmd = "userinfo" -> {"user"}
      [] cmd = "clear" -> {"purge", "clean"}
      [] cmd = "8ball" -> {"eightball"}
      [] OTHER -> {}

RequiredPermissions_unguarded_kick(cmd) ==
    CASE cmd = "say" -> {"manage_messages"}
      [] cmd = "clear" -> {"manage_messages"}
      [] cmd = "ban" -> {"ban_members"}
      [] cmd = "unban" -> {"ban_members"}
      [] cmd = "addrole" -> {"manage_roles"}
      [] cmd = "removerole" -> {"manage_roles"}
      [] OTHER -> {}

RequiredPermissions(cmd) ==
    CASE cmd = "say" -> {"manage_messages"}
      [] cmd = "clear" -> {"manage_messages"}
      [] cmd = "kick" -> {"kick_members"}
      [] cmd = "ban" -> {"ban_members"}
      [] cmd = "unban" -> {"ban_members"}
      [] cmd = "addrole" -> {"manage_roles"}
      [] cmd = "removerole" -> {"manage_roles"}
      [] OTHER -> {}

NoDefault == <<>>
NoReason == <<StrTok("text", "No reason provided")>>

Params(cmd) ==
    CASE cmd = "say" -> <<Param("message", "str", TRUE, TRUE, NoDefault)>>
      [] cmd = "avatar" -> <<Param("member", "Member", FALSE, FALSE, NoDefault)>>
      [] cmd = "userinfo" -> <<Param("member", "Member", FALSE, FALSE, NoDefault)>>
      [] cmd = "clear" -> <<Param("amount", "int", FALSE, FALSE, <<IntTok(DefaultAmount)>>)>>
      [] cmd = "kick" -> <<Param("member", "Member", TRUE, FALSE, NoDefault),
                           Param("reason", "str", FALSE, TRUE, NoReason)>>
      [] cmd = "ban" -> <<Param("member", "Member", TRUE, FALSE, NoDefault),
                          Param("reason", "str", FALSE, TRUE, NoReason)>>
      [] cmd = "unban" -> <<Param("user_id", "int", TRUE, FALSE, NoDefault)>>
      [] cmd = "addrole" -> <<Param("member", "Member", TRUE, FALSE, NoDefault),
                              Param("role", "Role", TRUE, FALSE, NoDefault)>>
      [] cmd = "removerole" -> <<Param("member", "Member", TRUE, FALSE, NoDefault),
                                 Param("role", "Role", TRUE, FALSE, NoDefault)>>
      [] cmd = "8ball" -> <<Param("question", "str", TRUE, TRUE, NoDefault)>>
      [] cmd = "roll" -> <<Param("sides", "int", FALSE, FALSE, <<IntTok(DefaultSides)>>)>>
      [] OTHER -> <<>>

(* Every name a message can invoke a command by. *)
CommandSurface == CommandNames \cup UNION {Aliases(c) : c \in CommandNames}

(* The command a name invokes, "" when there is none. *)
Resolve(name) ==
    IF \E c \in CommandNames : name = c \/ name \in Aliases(c)
    THEN CHOOSE c \in CommandNames : name = c \/ name \in Aliases(c)
    ELSE ""

(* The argument lists a message can carry for a command of n parameters;   *)
(* the dispatcher ignores what follows the last parameter.                 *)
ArgSeqs(toks, n) == UNION {[1..k -> toks] : k \in 0..n}

---------------------------------------------------------------------------
(* Argument conversion, as the dispatcher does it for the declared         *)
(* annotations: positional parameters take one token each, a keyword-only  *)
(* parameter takes the rest of the message.                                *)

ConvertOk(conv, tok) ==
    CASE conv = "int" -> tok.kind = "int"
      [] conv = "Member" -> tok.kind = "member"
      [] conv = "Role" -> tok.kind = "role"
      [] OTHER -> TRUE

ConvertError(conv) ==
    CASE conv = "Member" -> Err("MemberNotFound", "", "")
      [] conv = "Role" -> Err("RoleNotFound", "", "")
      [] OTHER -> Err("BadArgument", "", "")

RECURSIVE ParseArguments(_, _, _, _)
ParseArguments(params, args, k, acc) ==
    IF k > Len(params) THEN [err |-> NoError, vals |-> acc]
    ELSE LET p == params[k] IN
         IF k > Len(args)
         THEN IF p.required
              THEN [err |-> Err("MissingRequiredArgument", p.name, ""), vals |-> acc]
              ELSE ParseArguments(params, args, k + 1, Append(acc, p.default))
         ELSE IF p.rest
              THEN [err |-> NoError, vals |-> Append(acc, SubSeq(args, k, Len(args)))]
              ELSE IF ConvertOk(p.conv, args[k])
                   THEN ParseArguments(params, args, k + 1, Append(acc, <<args[k]>>))
                   ELSE [err |-> ConvertError(p.conv), vals |-> acc]

(* Command.prepare: lookup, then the checks, then the arguments. *)
Prepare(c) ==
    LET cmd == Resolve(c.name) IN
    IF cmd = ""
    THEN [cmd |-> "", err |-> Err("CommandNotFound", "", ""), vals |-> <<>>]
    ELSE IF ~(RequiredPermissions(cmd) \subseteq c.perms)
         THEN [cmd |-> cmd, err |-> Err("MissingPermissions", "", ""), vals |-> <<>>]
         ELSE LET p == ParseArguments(Params(cmd), c.args, 1, <<>>)
              IN [cmd |-> cmd, err |-> p.err, vals |-> p.vals]

---------------------------------------------------------------------------
(* Outbound requests. *)

Req(op, text, args, ok) == [op |-> op, text |-> text, args |-> args, ok |-> ok]
Reply(text, args) == Req("reply", text, args, TRUE)
Send(text, args) == Req("send", text, args, TRUE)

PermissionDenied == "You do not have permission to run this command."
BotPermissionDenied == "I don't have the required permissions to do that."
MissingArgument == "Missing argument: {error.param.name}"
BadArgumentText == "Bad argument provided."
Unexpected == "An unexpected error occurred. The error has been logged."
AmountRange == "Please provide a number between 1 and 200."
SidesRange == "Please choose a number between 2 and 1,000,000."

MutationOps == {"delete", "purge", "kick", "ban", "unban", "add_roles", "remove_roles"}

Msg(kind, inv) == [kind |-> kind, inv |-> inv]


Range(seq) == {seq[k] : k \in 1..Len(seq)}

(* seq without its last occurrence of m. *)
Remove(seq, m) ==
    IF m \notin Range(seq) THEN seq
    ELSE LET k == CHOOSE j \in 1..Len(seq) :
                      seq[j] = m /\ \A l \in (j + 1)..Len(seq) : seq[l] # m
         IN SubSeq(seq, 1, k - 1) \o SubSeq(seq, k + 1, Len(seq))

(* One message in the channel for every message the requests post. *)
Posts(i, reqs) ==
    [k \in 1..Len(reqs) |-> Msg(IF reqs[k].text = "Deleted {len(deleted)-1} messages."
                                THEN "notice" ELSE "bot", i)]

---------------------------------------------------------------------------
(* on_command_error, app.py:60-79: the replies it sends for an error. *)

Unwrap(err) ==
    IF isinstance(err, "CommandInvokeError") /\ err.original # ""
    THEN Err(err.original, "", "")
    ELSE err

on_command_error_no_unknown_branch(err) ==
    LET e == Unwrap(err) IN
    IF isinstance(e, "MissingPermissions") THEN <<Reply(PermissionDenied, <<>>)>>
    ELSE IF isinstance(e, "BotMissingPermissions") THEN <<Reply(BotPermissionDenied, <<>>)>>
    ELSE IF isinstance(e, "MissingRequiredArgument")
         THEN <<Reply(MissingArgument, <<StrTok("param", e.param)>>)>>
    ELSE IF isinstance(e, "BadArgument") THEN <<Reply(BadArgumentText, <<>>)>>
    ELSE <<Reply(Unexpected, <<>>)>>

on_command_error_arguments_swapped(err) ==
    LET e == Unwrap(err) IN
    IF isinstance(e, "MissingPermissions") THEN <<Reply(PermissionDenied, <<>>)>>
    ELSE IF isinstance(e, "BotMissingPermissions") THEN <<Reply(BotPermissionDenied, <<>>)>>
    ELSE IF isinstance(e, "MissingRequiredArgument") THEN <<Reply(BadArgumentText, <<>>)>>
    ELSE IF isinstance(e, "BadArgument")
         THEN <<Reply(MissingArgument, <<StrTok("param", e.param)>>)>>
    ELSE IF isinstance(e, "CommandNotFound") THEN <<>>
    ELSE <<Reply(Unexpected, <<>>)>>

on_command_error(err) ==
    LET e == Unwrap(err) IN
    IF isinstance(e, "MissingPermissions") THEN <<Reply(PermissionDenied, <<>>)>>
    ELSE IF isinstance(e, "BotMissingPermissions") THEN <<Reply(BotPermissionDenied, <<>>)>>
    ELSE IF isinstance(e, "MissingRequiredArgument")
         THEN <<Reply(MissingArgument, <<StrTok("param", e.param)>>)>>
    ELSE IF isinstance(e, "BadArgument") THEN <<Reply(BadArgumentText, <<>>)>>
    ELSE IF isinstance(e, "CommandNotFound") THEN <<>>
    ELSE <<Reply(Unexpected, <<>>)>>

---------------------------------------------------------------------------
(* How a step of an invocation ends. *)

(* The handler returns: its requests are logged, the channel becomes h. *)
Return(i, reqs, h, d) ==
    /\ out' = [out EXCEPT ![i] = @ \o reqs]
    /\ pc' = [pc EXCEPT ![i] = "done"]
    /\ history' = h
    /\ draws' = d
    /\ UNCHANGED <<PREFIX, WELCOME_CHANNEL, ctx, vals, error, runs, deleted, joinVars>>

(* The handler raises exc: the dispatcher wraps it in a CommandInvokeError *)
(* and hands it to on_command_error.                                       *)
Raise(i, reqs, exc) ==
    /\ out' = [out EXCEPT ![i] = @ \o reqs]
    /\ error' = [error EXCEPT ![i] = Err("CommandInvokeError", "", exc)]
    /\ pc' = [pc EXCEPT ![i] = "error"]
    /\ UNCHANGED <<PREFIX, WELCOME_CHANNEL, ctx, vals, runs, deleted, history, draws, joinVars>>

(* ctx.reply / ctx.send of one message, then return. *)
Answer(i, req) == Return(i, <<req>>, Append(history, Msg("bot", i)), draws)

---------------------------------------------------------------------------
(* A message invoking a command arrives in the channel. *)

OnMessageFrom(i, names, permSets, toks) ==
    /\ pc[i] = "idle"
    /\ \E name \in names, perms \in permSets :
         \E args \in ArgSeqs(toks, Len(Params(Resolve(name)))) :
           ctx' = [ctx EXCEPT ![i] = [name |-> name, perms |-> perms, args |-> args]]
    /\ pc' = [pc EXCEPT ![i] = "received"]
    /\ history' = Append(history, Msg("cmd", i))
    /\ UNCHANGED <<PREFIX, WELCOME_CHANNEL, vals, error, out, runs, deleted, draws, joinVars>>

OnMessage(i) ==
    OnMessageFrom(i, CommandSurface \cup {"foo"}, SUBSET Permissions, Tokens)

(* The dispatcher prepares the invocation and enters the handler body, or  *)
(* hands the error to on_command_error.                                    *)
Dispatch(i) ==
    /\ pc[i] = "received"
    /\ LET r == Prepare(ctx[i]) IN
       IF r.err # NoError
       THEN /\ error' = [error EXCEPT ![i] = r.err]
            /\ pc' = [pc EXCEPT ![i] = "error"]
            /\ UNCHANGED <<vals, runs>>
       ELSE /\ vals' = [vals EXCEPT ![i] = r.vals]
            /\ runs' = [runs EXCEPT ![i] = @ + 1]
            /\ pc' = [pc EXCEPT ![i] = r.cmd]
            /\ UNCHANGED error
    /\ UNCHANGED <<PREFIX, WELCOME_CHANNEL, ctx, out, deleted, history, draws, joinVars>>

OnCommandError(i) ==
    /\ pc[i] = "error"
    /\ LET reqs == on_command_error(error[i])
       IN Return(i, reqs, history \o Posts(i, reqs), draws)

---------------------------------------------------------------------------
(* The handler bodies.  A handler that touches no state another invocation *)
(* reads is one step; clear, which reads the channel twice, is two.        *)

ping(i) ==
    /\ pc[i] = "ping"
    /\ Answer(i, Reply("Pong! WebSocket latency: {ws_latency}ms", <<>>))

(* say without its try/except around the deletion. *)
say_unguarded(i) ==
    /\ pc[i] = "say"
    /\ \E delOk \in BOOLEAN :
          /\ delOk => Msg("cmd", i) \in Range(history)
          /\ IF delOk
             THEN Return(i, <<Req("delete", "ctx.message", <<>>, TRUE),
                              Send("{message}", vals[i][1])>>,
                         Append(Remove(history, Msg("cmd", i)), Msg("bot", i)), draws)
             ELSE Raise(i, <<Req("delete", "ctx.message", <<>>, FALSE)>>, "Forbidden")

say(i) ==
    /\ pc[i] = "say"
    /\ \E delOk \in BOOLEAN :
          /\ delOk => Msg("cmd", i) \in Range(history)
          /\ Return(i, <<Req("delete", "ctx.message", <<>>, delOk),
                         Send("{message}", vals[i][1])>>,
                    Append(IF delOk THEN Remove(history, Msg("cmd", i)) ELSE history,
                           Msg("bot", i)),
                    draws)

avatar(i) ==
    /\ pc[i] = "avatar"
    /\ Answer(i, Reply("embed: {member}'s avatar", vals[i][1]))

serverinfo(i) ==
    /\ pc[i] = "serverinfo"
    /\ Answer(i, Reply("embed: serverinfo", <<>>))

userinfo(i) ==
    /\ pc[i] = "userinfo"
    /\ Answer(i, Reply("embed: userinfo", vals[i][1]))

AmountInRange(amount) == ~(amount < MinAmount \/ amount > MaxAmount)

PurgeLimit_without_command(amount) == amount

PurgeLimit(amount) == amount + 1

(* channel.purge(limit): the newest `limit` messages of the channel. *)
Purged(h, limit) ==
    LET k == IF limit < Len(h) THEN limit ELSE Len(h)
    IN SubSeq(h, Len(h) - k + 1, Len(h))

Kept(h, limit) ==
    LET k == IF limit < Len(h) THEN limit ELSE Len(h)
    IN SubSeq(h, 1, Len(h) - k)

(* clear up to the end of `await ctx.channel.purge(...)`. *)
clear(i) ==
    /\ pc[i] = "clear"
    /\ LET amount == vals[i][1][1].n IN
       IF ~AmountInRange(amount)
       THEN Answer(i, Reply(AmountRange, <<>>))
       ELSE \E res \in {"ok", "Forbidden", "HTTPException"} :
              LET req == Req("purge", "ctx.channel.purge", <<IntTok(PurgeLimit(amount))>>,
                             res = "ok")
              IN IF res = "ok"
                 THEN /\ deleted' = [deleted EXCEPT ![i] = Purged(history, PurgeLimit(amount))]
                      /\ history' = Kept(history, PurgeLimit(amount))
                      /\ out' = [out EXCEPT ![i] = Append(@, req)]
                      /\ pc' = [pc EXCEPT ![i] = "clear_notice"]
                      /\ UNCHANGED <<PREFIX, WELCOME_CHANNEL, ctx, vals, error, runs,
                                     draws, joinVars>>
                 ELSE Raise(i, <<req>>, res)

(* clear's last line: the transient notice. *)
clear_notice(i) ==
    /\ pc[i] = "clear_notice"
    /\ Return(i, <<Send("Deleted {len(deleted)-1} messages.",
                        <<IntTok(Len(deleted[i]) - 1)>>)>>,
              Append(history, Msg("notice", i)), draws)

(* delete_after=5: the notice removes itself, if it is still there. *)
NoticeExpire(i) ==
    /\ pc[i] = "done"
    /\ Msg("notice", i) \in Range(history)
    /\ history' = Remove(history, Msg("notice", i))
    /\ UNCHANGED <<PREFIX, WELCOME_CHANNEL, pc, ctx, vals, error, out, runs, deleted,
                   draws, joinVars>>

(* A handler of the shape `await <mutation>; await ctx.reply(<confirmation>)`. *)
MutateThenConfirm(i, op, call, confirmation, failures) ==
    \E res \in {"ok"} \cup failures :
        LET target == vals[i][1] \o (IF Len(vals[i]) > 1 THEN vals[i][2] ELSE <<>>)
            req == Req(op, call, target, res = "ok")
        IN IF res = "ok"
           THEN Return(i, <<req, Reply(confirmation, target)>>,
                       Append(history, Msg("bot", i)), draws)
           ELSE Raise(i, <<req>>, res)

(* The same shape with the confirmation sent whatever the mutation did. *)
kick_confirm_always(i) ==
    /\ pc[i] = "kick"
    /\ \E res \in {"ok", "Forbidden", "HTTPException"} :
        LET target == vals[i][1] \o vals[i][2]
        IN Return(i, <<Req("kick", "member.kick", target, res = "ok"),
                       Reply("Kicked {member} - {reason}", target)>>,
                  Append(history, Msg("bot", i)), draws)

kick(i) ==
    /\ pc[i] = "kick"
    /\ MutateThenConfirm(i, "kick", "member.kick", "Kicked {member} - {reason}",
                         {"Forbidden", "HTTPException"})

ban(i) ==
    /\ pc[i] = "ban"
    /\ MutateThenConfirm(i, "ban", "member.ban", "Banned {member} - {reason}",
                         {"Forbidden", "HTTPException"})

unban(i) ==
    /\ pc[i] = "unban"
    /\ \E fetched \in {"ok", "NotFound", "HTTPException"},
          res \in {"ok", "NotFound", "Forbidden"} :
        LET fetch == Req("fetch_user", "bot.fetch_user", vals[i][1], fetched = "ok")
            req == Req("unban", "ctx.guild.unban", vals[i][1], res = "ok")
        IN IF fetched # "ok" THEN res = "ok" /\ Raise(i, <<fetch>>, fetched)
           ELSE IF res # "ok" THEN Raise(i, <<fetch, req>>, res)
           ELSE Return(i, <<fetch, req, Reply("Unbanned {user}.", vals[i][1])>>,
                       Append(history, Msg("bot", i)), draws)

addrole(i) ==
    /\ pc[i] = "addrole"
    /\ MutateThenConfirm(i, "add_roles", "member.add_roles",
                         "Added role {role.name} to {member.mention}.",
                         {"Forbidden", "HTTPException"})

removerole(i) ==
    /\ pc[i] = "removerole"
    /\ MutateThenConfirm(i, "remove_roles", "member.remove_roles",
                         "Removed role {role.name} from {member.mention}.",
                         {"Forbidden", "HTTPException"})

EIGHT_BALL_ANSWERS ==
    <<"It is certain.", "Without a doubt.", "You may rely on it.",
      "Ask again later.", "Better not tell you now.", "Very doubtful.",
      "My sources say no.", "Signs point to yes.", "Absolutely!", "No way.">>

eightball(i) ==
    /\ pc[i] = "8ball"
    /\ \E k \in 1..Len(EIGHT_BALL_ANSWERS) :
        Return(i, <<Reply("8ball: {question} / {answer}",
                          vals[i][1] \o <<StrTok("answer", EIGHT_BALL_ANSWERS[k])>>)>>,
               Append(history, Msg("bot", i)), draws + 1)

coin(i) ==
    /\ pc[i] = "coin"
    /\ \E side \in {"Heads", "Tails"} :
        Return(i, <<Reply("{side}", <<StrTok("side", side)>>)>>,
               Append(history, Msg("bot", i)), draws + 1)

(* random.randint(a, b): an integer of a..b.  A range too wide to list is  *)
(* represented by its ends, their neighbours and its middle.               *)
randint_from_zero(a, b) ==
    {r \in {a - 1, a, a + 1, (a + b) \div 2, b - 1, b} : a - 1 <= r /\ r <= b}

randint(a, b) ==
    {r \in {a, a + 1, (a + b) \div 2, b - 1, b} : a <= r /\ r <= b}

SidesInRange(sides) == ~(sides < MinSides \/ sides > MaxSides)

roll(i) ==
    /\ pc[i] = "roll"
    /\ LET sides == vals[i][1][1].n IN
       IF ~SidesInRange(sides)
       THEN Answer(i, Reply(SidesRange, <<>>))
       ELSE \E result \in randint(1, sides) :
              Return(i, <<Reply("d{sides} -> {result}", <<IntTok(sides), IntTok(result)>>)>>,
                     Append(history, Msg("bot", i)), draws + 1)

---------------------------------------------------------------------------
(* help_command, app.py:232-266.  A line of the text is the interpolated   *)
(* prefix (or ""), the command name it documents (or "") and the rest.     *)

Line(p, name, rest) == [p |-> p, name |-> name, rest |-> rest]

help_text_literal_prefix(p) ==
    << Line("", "", "NekoNi2 - commands"),
       Line(p, "", "Prefix: "),
       Line("", "", "Moderation:"),
       Line(p, "clear", " <amount>       - Delete messages (requires Manage Messages)"),
       Line(p, "kick", " <member> [reason]"),
       Line(p, "ban", " <member> [reason]"),
       Line(p, "unban", " <user_id>"),
       Line("", "", "Utility:"),
       Line(p, "ping", ""),
       Line(p, "say", " <message>        - (requires Manage Messages)"),
       Line(p, "avatar", " [member]"),
       Line(p, "userinfo", " [member]"),
       Line(p, "serverinfo", ""),
       Line("", "", "Fun:"),
       Line(p, "8ball", " <question>"),
       Line(p, "coin", ""),
       Line("!", "roll", " [sides]"),
       Line("", "", "Advanced:"),
       Line(p, "addrole", " <member> <role>      - requires Manage Roles"),
       Line(p, "removerole", " <member> <role>"),
       Line("", "", "Use @{bot.user} as a mention or the prefix to run commands.") >>

help_text(p) ==
    << Line("", "", "NekoNi2 - commands"),
       Line(p, "", "Prefix: "),
       Line("", "", "Moderation:"),
       Line(p, "clear", " <amount>       - Delete messages (requires Manage Messages)"),
       Line(p, "kick", " <member> [reason]"),
       Line(p, "ban", " <member> [reason]"),
       Line(p, "unban", " <user_id>"),
       Line("", "", "Utility:"),
       Line(p, "ping", ""),
       Line(p, "say", " <message>        - (requires Manage Messages)"),
       Line(p, "avatar", " [member]"),
       Line(p, "userinfo", " [member]"),
       Line(p, "serverinfo", ""),
       Line("", "", "Fun:"),
       Line(p, "8ball", " <question>"),
       Line(p, "coin", ""),
       Line(p, "roll", " [sides]"),
       Line("", "", "Advanced:"),
       Line(p, "addrole", " <member> <role>      - requires Manage Roles"),
       Line(p, "removerole", " <member> <role>"),
       Line("", "", "Use @{bot.user} as a mention or the prefix to run commands.") >>

help_command(i) ==
    /\ pc[i] = "help"
    /\ Answer(i, Reply("help_text", help_text(PREFIX)))

HandlerBody(i) ==
    \/ ping(i) \/ say(i) \/ avatar(i) \/ serverinfo(i) \/ userinfo(i)
    \/ clear(i) \/ clear_notice(i) \/ kick(i) \/ ban(i) \/ unban(i)
    \/ addrole(i) \/ removerole(i) \/ eightball(i) \/ coin(i) \/ roll(i)
    \/ help_command(i)

---------------------------------------------------------------------------
(* on_member_join, app.py:48-56. *)

Channel(name, send) == [name |-> name, send_messages |-> send]

(* discord.utils.get(channels, name=...): the first match, 0 for None. *)
utils_get(channels, name) ==
    IF \E k \in 1..Len(channels) : channels[k].name = name
    THEN CHOOSE k \in 1..Len(channels) :
             /\ channels[k].name = name
             /\ \A j \in 1..(k - 1) : channels[j].name # name
    ELSE 0

on_member_join_unchecked(member) ==
    /\ member \notin joined
    /\ joined' = joined \cup {member}
    /\ LET channel == utils_get(text_channels, WELCOME_CHANNEL) IN
       IF channel # 0
       THEN greetings' = Append(greetings, [channel |-> channel, mention |-> member])
       ELSE UNCHANGED greetings
    /\ UNCHANGED <<PREFIX, WELCOME_CHANNEL, text_channels, cmdVars>>

on_member_join(member) ==
    /\ member \notin joined
    /\ joined' = joined \cup {member}
    /\ LET channel == utils_get(text_channels, WELCOME_CHANNEL) IN
       IF channel # 0 /\ text_channels[channel].send_messages
       THEN greetings' = Append(greetings, [channel |-> channel, mention |-> member])
       ELSE UNCHANGED greetings
    /\ UNCHANGED <<PREFIX, WELCOME_CHANNEL, text_channels, cmdVars>>

---------------------------------------------------------------------------
(* Specifications. *)

NoContext == [name |-> "", perms |-> {}, args |-> <<>>]

Idle ==
    /\ pc = [i \in Invocations |-> "idle"]
    /\ ctx = [i \in Invocations |-> NoContext]
    /\ vals = [i \in Invocations |-> <<>>]
    /\ error = [i \in Invocations |-> NoError]
    /\ out = [i \in Invocations |-> <<>>]
    /\ runs = [i \in Invocations |-> 0]
    /\ deleted = [i \in Invocations |-> <<>>]
    /\ draws = 0

NoGuild ==
    /\ WELCOME_CHANNEL = "general"
    /\ text_channels = <<>>
    /\ joined = {}
    /\ greetings = <<>>

Histories == {[k \in 1..n |-> Msg("user", 0)] : n \in 0..MaxHistory}

(* One invocation of any command, with any caller and any arguments. *)
Init ==
    /\ PREFIX \in Prefixes
    /\ history \in Histories
    /\ Idle
    /\ NoGuild

Next ==
    \E i \in {1} :
        \/ OnMessage(i)
        \/ Dispatch(i)
        \/ HandlerBody(i)
        \/ OnCommandError(i)
        \/ NoticeExpire(i)

Spec == Init /\ [][Next]_vars

(* The hook, given every class of error the dispatcher can hand it. *)
HookTokens == {IntTok(MinAmount), StrTok("member", "alice"), StrTok("role", "mod")}

OnMessageHook(i) ==
    OnMessageFrom(i, CommandSurface \cup {"foo"}, {{}, Permissions}, HookTokens)

DeliveredErrors ==
    {Err(c, "", "") : c \in {"MissingPermissions", "BotMissingPermissions", "BadArgument",
                              "MemberNotFound", "RoleNotFound", "CommandNotFound",
                              "CheckFailure", "NoPrivateMessage", "TooManyArguments",
                              "ArgumentParsingError", "CommandOnCooldown"}}
    \cup {Err("MissingRequiredArgument", p, "") : p \in {"member", "role", "user_id"}}
    \cup {Err("CommandInvokeError", "", c) :
              c \in {"Forbidden", "NotFound", "HTTPException", "ValueError"}}

DeliverError(i) ==
    /\ pc[i] = "received"
    /\ \E e \in DeliveredErrors : error' = [error EXCEPT ![i] = e]
    /\ pc' = [pc EXCEPT ![i] = "error"]
    /\ UNCHANGED <<PREFIX, WELCOME_CHANNEL, ctx, vals, out, runs, deleted, history, draws,
                   joinVars>>

InitHook ==
    /\ PREFIX = "!"
    /\ history \in Histories
    /\ Idle
    /\ NoGuild

NextHook ==
    \E i \in {1} :
        \/ OnMessageHook(i)
        \/ Dispatch(i)
        \/ DeliverError(i)
        \/ HandlerBody(i)
        \/ OnCommandError(i)
        \/ NoticeExpire(i)

SpecHook == InitHook /\ [][NextHook]_vars

(* Several clear invocations in flight in one channel. *)
ClearTokens == {IntTok(MinAmount), IntTok(MinAmount + 1), IntTok(MaxAmount)}

OnMessageClear(i) ==
    OnMessageFrom(i, {"clear", "purge"}, {{"manage_messages"}}, ClearTokens)

InitClear ==
    /\ PREFIX = "!"
    /\ history \in Histories
    /\ Idle
    /\ NoGuild

NextClear ==
    \E i \in Invocations :
        \/ OnMessageClear(i)
        \/ Dispatch(i)
        \/ clear(i)
        \/ clear_notice(i)
        \/ OnCommandError(i)
        \/ NoticeExpire(i)

SpecClear == InitClear /\ [][NextClear]_vars

(* Members joining a guild. *)
InitJoin ==
    /\ PREFIX = "!"
    /\ WELCOME_CHANNEL \in ChannelNames
    /\ text_channels \in UNION {[1..n -> {Channel(c, s) : c \in ChannelNames, s \in BOOLEAN}] :
                                   n \in 0..MaxChannels}
    /\ joined = {}
    /\ greetings = <<>>
    /\ history = <<>>
    /\ Idle

NextJoin == \E member \in Members : on_member_join(member)

SpecJoin == InitJoin /\ [][NextJoin]_vars

---------------------------------------------------------------------------
(* The properties.  They are stated on what an invocation was asked        *)
(* (ctx) and what it issued (out), with the permissions, parameters and    *)
(* ranges as the specification words them.                                 *)

Started(i) == pc[i] \notin {"idle", "received"}
Finished(i) == pc[i] = "done"

Messages(i) == SelectSeq(out[i], LAMBDA r : r.op \in {"reply", "send"})
Mutations(i) == SelectSeq(out[i], LAMBDA r : r.op \in MutationOps)
Attempts(i, op) == SelectSeq(out[i], LAMBDA r : r.op = op)

IsReply(r, text) == r.op = "reply" /\ r.text = text /\ r.ok
OnlyReply(i, text) == Len(out[i]) = 1 /\ IsReply(out[i][1], text)

(* The permission each guarded command declares, by invoked name. *)
GuardedNames == {"say", "clear", "purge", "clean", "kick", "ban", "unban",
                 "addrole", "removerole"}

DeclaredPermission(name) ==
    CASE name \in {"say", "clear", "purge", "clean"} -> "manage_messages"
      [] name = "kick" -> "kick_members"
      [] name \in {"ban", "unban"} -> "ban_members"
      [] name \in {"addrole", "removerole"} -> "manage_roles"

Permitted(i) ==
    ctx[i].name \in GuardedNames => DeclaredPermission(ctx[i].name) \in ctx[i].perms

(* The required parameters of each command, by invoked name. *)
RequiredNames == {"say", "kick", "ban", "unban", "addrole", "removerole",
                  "8ball", "eightball"}

RequiredParameters(name) ==
    CASE name = "say" -> <<"message">>
      [] name \in {"kick", "ban"} -> <<"member">>
      [] name = "unban" -> <<"user_id">>
      [] name \in {"addrole", "removerole"} -> <<"member", "role">>
      [] name \in {"8ball", "eightball"} -> <<"question">>

OmitsRequired(i) ==
    /\ ctx[i].name \in RequiredNames
    /\ Len(ctx[i].args) < Len(RequiredParameters(ctx[i].name))

FirstOmitted(i) == RequiredParameters(ctx[i].name)[Len(ctx[i].args) + 1]

RepliesMissingArgument(i) ==
    /\ Len(out[i]) = 1
    /\ IsReply(out[i][1], MissingArgument)
    /\ out[i][1].args = <<StrTok("param", FirstOmitted(i))>>

(* C1: a caller lacking the permission a guarded command declares gets the *)
(* permission-denied reply, and the handler body never runs: no deletion,  *)
(* kick, ban, unban or role change is issued for that invocation.          *)
C1_PermissionGuard ==
    \A i \in Invocations :
        (Started(i) /\ ctx[i].name \in GuardedNames /\ ~Permitted(i)) =>
            /\ runs[i] = 0
            /\ Mutations(i) = <<>>
            /\ Attempts(i, "fetch_user") = <<>>
            /\ Finished(i) => OnlyReply(i, PermissionDenied)

C1_Witness ==
    \E i \in Invocations :
        /\ Finished(i)
        /\ ctx[i].name = "kick"
        /\ "kick_members" \notin ctx[i].perms
        /\ ctx[i].args = <<StrTok("member", "alice")>>
        /\ OnlyReply(i, PermissionDenied)

(* C2, as claimed: every invocation that omits a required argument is      *)
(* answered "Missing argument: <name>" and performs no mutation.           *)
C2_Original ==
    \A i \in Invocations :
        (Finished(i) /\ OmitsRequired(i)) =>
            RepliesMissingArgument(i) /\ Mutations(i) = <<>>

(* C2, amended: it is so when the caller holds the permission the command  *)
(* declares and every argument supplied before the omitted one is well     *)
(* formed (the only such argument is the member of addrole/removerole).    *)
C2_MissingArgument ==
    \A i \in Invocations :
        (/\ Started(i)
         /\ OmitsRequired(i)
         /\ Permitted(i)
         /\ \A k \in 1..Len(ctx[i].args) : ctx[i].args[k].kind = "member") =>
            /\ runs[i] = 0
            /\ Mutations(i) = <<>>
            /\ Finished(i) => RepliesMissingArgument(i)

C2_Witness ==
    \E i \in Invocations :
        /\ Finished(i)
        /\ ctx[i].name = "addrole"
        /\ ctx[i].args = <<StrTok("member", "alice")>>
        /\ RepliesMissingArgument(i)
        /\ FirstOmitted(i) = "role"

(* The amount a clear invocation asks for: the argument, or the default. *)
ClearNames == {"clear", "purge", "clean"}

AsksAmount(i) ==
    /\ ctx[i].name \in ClearNames
    /\ "manage_messages" \in ctx[i].perms
    /\ ctx[i].args # <<>> => ctx[i].args[1].kind = "int"

Amount(i) == IF ctx[i].args = <<>> THEN 10 ELSE ctx[i].args[1].n

(* C3: a permitted clear with amount in [1,200] issues a single purge      *)
(* whose limit is amount+1, so at most amount+1 messages are deleted; with *)
(* amount outside [1,200] it issues no purge and replies with the range    *)
(* rejection.                                                              *)
C3_ClearTargets ==
    \A i \in Invocations :
        (AsksAmount(i) /\ pc[i] \in {"clear_notice", "error", "done"}) =>
            IF 1 <= Amount(i) /\ Amount(i) <= 200
            THEN /\ Len(Attempts(i, "purge")) = 1
                 /\ Attempts(i, "purge")[1].args = <<IntTok(Amount(i) + 1)>>
                 /\ Mutations(i) = Attempts(i, "purge")
                 /\ Len(deleted[i]) <= Amount(i) + 1
            ELSE /\ Mutations(i) = <<>>
                 /\ deleted[i] = <<>>
                 /\ OnlyReply(i, AmountRange)

C3_Witness ==
    \E i \in Invocations :
        /\ Finished(i)
        /\ ctx[i].name = "purge"
        /\ Amount(i) = 200
        /\ Len(Attempts(i, "purge")) = 1
        /\ Attempts(i, "purge")[1].ok
        /\ Attempts(i, "purge")[1].args = <<IntTok(201)>>
        /\ Len(deleted[i]) = MaxHistory + 1

(* The class the hook decides on: what a CommandInvokeError wraps. *)
Delivered(i) ==
    IF error[i].class = "CommandInvokeError" THEN error[i].original ELSE error[i].class

ExpectedReply(i) ==
    CASE Delivered(i) = "MissingPermissions" -> PermissionDenied
      [] Delivered(i) = "BotMissingPermissions" -> BotPermissionDenied
      [] Delivered(i) = "MissingRequiredArgument" -> MissingArgument
      [] Delivered(i) \in {"BadArgument", "MemberNotFound", "RoleNotFound"} -> BadArgumentText
      [] OTHER -> Unexpected

(* C4: an invocation whose error reached the hook ends with at most one    *)
(* reply and is not run again: each of the four named kinds gets its own   *)
(* reply, an unknown command gets none, anything else gets the generic     *)
(* reply; an error raised in a handler body is unwrapped first.            *)
C4_ErrorHook ==
    \A i \in Invocations :
        (Finished(i) /\ error[i] # NoError) =>
            /\ runs[i] <= 1
            /\ Len(Mutations(i)) <= 1
            /\ IF Delivered(i) = "CommandNotFound"
               THEN Messages(i) = <<>>
               ELSE /\ Len(Messages(i)) = 1
                    /\ IsReply(Messages(i)[1], ExpectedReply(i))
                    /\ Delivered(i) = "MissingRequiredArgument" =>
                           Messages(i)[1].args = <<StrTok("param", error[i].param)>>

C4_Witness ==
    \E i \in Invocations :
        /\ Finished(i)
        /\ error[i] = Err("CommandInvokeError", "", "Forbidden")
        /\ runs[i] = 1
        /\ Len(out[i]) = 2
        /\ out[i][1].op = "ban" /\ ~out[i][1].ok
        /\ IsReply(out[i][2], Unexpected)

C4_WitnessBotPermission ==
    \E i \in Invocations :
        /\ Finished(i)
        /\ error[i].class = "BotMissingPermissions"
        /\ OnlyReply(i, BotPermissionDenied)

AsksSides(i) ==
    /\ ctx[i].name = "roll"
    /\ ctx[i].args # <<>> => ctx[i].args[1].kind = "int"

Sides(i) == IF ctx[i].args = <<>> THEN 6 ELSE ctx[i].args[1].n

(* C5: roll with sides in [2,1000000] replies with an integer result,      *)
(* 1 <= result <= sides, drawn once; with sides outside the range nothing  *)
(* is drawn and the reply is the range rejection.                          *)
C5_RollRange ==
    \A i \in Invocations :
        (Finished(i) /\ AsksSides(i)) =>
            IF 2 <= Sides(i) /\ Sides(i) <= 1000000
            THEN /\ Len(out[i]) = 1
                 /\ IsReply(out[i][1], "d{sides} -> {result}")
                 /\ out[i][1].args[1] = IntTok(Sides(i))
                 /\ out[i][1].args[2].kind = "int"
                 /\ 1 <= out[i][1].args[2].n
                 /\ out[i][1].args[2].n <= Sides(i)
                 /\ draws = 1
            ELSE /\ OnlyReply(i, SidesRange)
                 /\ draws = 0

C5_Witness ==
    \E i \in Invocations :
        /\ Finished(i)
        /\ ctx[i].name = "roll"
        /\ Sides(i) = 1000000
        /\ IsReply(out[i][1], "d{sides} -> {result}")
        /\ out[i][1].args[2].n = 1000000

C5_WitnessRejected ==
    \E i \in Invocations :
        /\ Finished(i)
        /\ ctx[i].name = "roll"
        /\ Sides(i) = 1000001
        /\ OnlyReply(i, SidesRange)

(* The help reply of a finished help invocation, and its command entries. *)
HelpDone(i) ==
    /\ Finished(i)
    /\ ctx[i].name = "help"
    /\ Len(out[i]) = 1
    /\ IsReply(out[i][1], "help_text")

HelpEntries(i) == {l \in Range(out[i][1].args) : l.name # ""}

(* The names of the command surface, aliases included. *)
SurfaceNames ==
    {"ping", "say", "avatar", "serverinfo", "userinfo", "user", "clear", "purge",
     "clean", "kick", "ban", "unban", "addrole", "removerole", "8ball", "eightball",
     "coin", "roll", "help"}

ListedNames ==
    {"ping", "say", "avatar", "serverinfo", "userinfo", "clear", "kick", "ban",
     "unban", "addrole", "removerole", "8ball", "coin", "roll"}

(* C6, as claimed: the help reply has an entry for every name of the       *)
(* command surface, each written with the configured prefix.               *)
C6_Original ==
    \A i \in Invocations :
        (Finished(i) /\ ctx[i].name = "help") =>
            /\ HelpDone(i)
            /\ \A n \in SurfaceNames : \E l \in HelpEntries(i) : l.name = n
            /\ \A l \in HelpEntries(i) : l.p = PREFIX

(* C6, amended: the help reply has an entry for the primary name of every  *)
(* command except help itself, and for no alias; every entry, and the      *)
(* "Prefix:" line, is written with the configured prefix.                  *)
C6_HelpListing ==
    \A i \in Invocations :
        (Finished(i) /\ ctx[i].name = "help") =>
            /\ HelpDone(i)
            /\ {l.name : l \in HelpEntries(i)} = ListedNames
            /\ \A l \in HelpEntries(i) : l.p = PREFIX
            /\ \E l \in Range(out[i][1].args) : l.rest = "Prefix: " /\ l.p = PREFIX

C6_Witness ==
    \E i \in Invocations :
        /\ HelpDone(i)
        /\ PREFIX = "?"
        /\ \E l \in HelpEntries(i) : l.name = "roll" /\ l.p = "?"

(* C7: say by a caller with manage-messages first attempts to delete the   *)
(* invoking message and then posts the supplied text unchanged, once, in   *)
(* the channel, whether the deletion succeeded or not; a failed deletion   *)
(* produces no error reply.                                                *)
C7_SayPostsOnce ==
    \A i \in Invocations :
        (/\ Finished(i)
         /\ ctx[i].name = "say"
         /\ "manage_messages" \in ctx[i].perms
         /\ ctx[i].args # <<>>) =>
            /\ Len(out[i]) = 2
            /\ out[i][1].op = "delete"
            /\ out[i][2] = Send("{message}", ctx[i].args)
            /\ error[i] = NoError
            /\ Msg("bot", i) \in Range(history)
            /\ out[i][1].ok <=> Msg("cmd", i) \notin Range(history)

C7_Witness ==
    \E i \in Invocations :
        /\ Finished(i)
        /\ ctx[i].name = "say"
        /\ Len(out[i]) = 2
        /\ out[i][1].op = "delete" /\ ~out[i][1].ok
        /\ out[i][2] = Send("{message}", <<StrTok("text", "hello")>>)
        /\ Msg("cmd", i) \in Range(history)

(* The greetings sent for a member, and the welcome channels of the guild. *)
GreetingsFor(member) == SelectSeq(greetings, LAMBDA g : g.mention = member)

Named == {k \in 1..Len(text_channels) : text_channels[k].name = WELCOME_CHANNEL}

FirstNamed == CHOOSE k \in Named : \A j \in Named : k <= j

(* C8, as claimed: the greeting is posted, once, in a channel of the       *)
(* configured name, exactly when a channel of that name exists in which    *)
(* the bot may send; otherwise nothing is sent.                            *)
C8_Original ==
    \A member \in joined :
        IF \E k \in Named : text_channels[k].send_messages
        THEN /\ Len(GreetingsFor(member)) = 1
             /\ GreetingsFor(member)[1].channel \in Named
        ELSE GreetingsFor(member) = <<>>

(* C8, amended: the greeting is posted, once, in the first text channel of *)
(* the configured name, exactly when there is one and the bot may send in  *)
(* that first one; otherwise nothing is sent.                              *)
C8_JoinGreeting ==
    \A member \in joined :
        IF Named # {} /\ text_channels[FirstNamed].send_messages
        THEN GreetingsFor(member) = <<[channel |-> FirstNamed, mention |-> member]>>
        ELSE GreetingsFor(member) = <<>>

C8_Witness ==
    /\ joined = Members
    /\ Cardinality(Named) = 2
    /\ text_channels[1].send_messages
    /\ ~text_channels[2].send_messages
    /\ Len(greetings) = 2
    /\ \A k \in 1..2 : greetings[k].channel = 1

C8_WitnessSilent ==
    /\ joined # {}
    /\ Named = {}
    /\ text_channels # <<>>
    /\ greetings = <<>>

(* The mutation call and the confirmation of each moderation command. *)
ModerationNames == {"kick", "ban", "unban", "addrole", "removerole"}

MutationOf(name) ==
    CASE name = "kick" -> "kick"
      [] name = "ban" -> "ban"
      [] name = "unban" -> "unban"
      [] name = "addrole" -> "add_roles"
      [] name = "removerole" -> "remove_roles"

ConfirmationOf(name) ==
    CASE name = "kick" -> "Kicked {member} - {reason}"
      [] name = "ban" -> "Banned {member} - {reason}"
      [] name = "unban" -> "Unbanned {user}."
      [] name = "addrole" -> "Added role {role.name} to {member.mention}."
      [] name = "removerole" -> "Removed role {role.name} from {member.mention}."

Confirmations(i) ==
    {k \in 1..Len(out[i]) : IsReply(out[i][k], ConfirmationOf(ctx[i].name))}

Failed(i) == \E k \in 1..Len(out[i]) : ~out[i][k].ok

(* C9: the confirmation of kick, ban, unban, addrole and removerole is     *)
(* sent only after the mutation call of the invocation succeeded (for      *)
(* unban, after the user lookup succeeded too); when the call or the       *)
(* lookup fails there is no confirmation, no second attempt, and the only  *)
(* reply is the generic one.                                               *)
C9_ConfirmAfterMutation ==
    \A i \in Invocations :
        (ctx[i].name \in ModerationNames /\ runs[i] > 0) =>
            /\ Len(Attempts(i, MutationOf(ctx[i].name))) <= 1
            /\ Len(Attempts(i, "fetch_user")) <= 1
            /\ \A k \in Confirmations(i) :
                   /\ \E j \in 1..(k - 1) :
                          out[i][j].op = MutationOf(ctx[i].name) /\ out[i][j].ok
                   /\ ctx[i].name = "unban" =>
                          \E j \in 1..(k - 1) : out[i][j].op = "fetch_user" /\ out[i][j].ok
            /\ (Finished(i) /\ Failed(i)) =>
                   /\ Confirmations(i) = {}
                   /\ Len(Messages(i)) = 1
                   /\ IsReply(Messages(i)[1], Unexpected)
                   /\ out[i][Len(out[i])] = Messages(i)[1]
            /\ (Finished(i) /\ ~Failed(i)) =>
                   /\ Len(Messages(i)) = 1
                   /\ Confirmations(i) = {Len(out[i])}

C9_Witness ==
    \E i \in Invocations :
        /\ Finished(i)
        /\ ctx[i].name = "unban"
        /\ Len(out[i]) = 3
        /\ out[i][1].op = "fetch_user" /\ out[i][1].ok
        /\ out[i][2].op = "unban" /\ ~out[i][2].ok
        /\ IsReply(out[i][3], Unexpected)

C9_WitnessConfirmed ==
    \E i \in Invocations :
        /\ Finished(i)
        /\ ctx[i].name = "kick"
        /\ Len(out[i]) = 2
        /\ out[i][1].op = "kick" /\ out[i][1].ok
        /\ IsReply(out[i][2], "Kicked {member} - {reason}")

(* The notice of a clear invocation and the messages its purge removed. *)
Notices(i) == SelectSeq(out[i], LAMBDA r : r.text = "Deleted {len(deleted)-1} messages.")

RemovedOthers(i) == SelectSeq(deleted[i], LAMBDA m : m # Msg("cmd", i))

(* C10: in every interleaving of clear invocations with amount in [1,200]  *)
(* in one channel, the N of an invocation's "Deleted N messages." notice   *)
(* is the number of messages, other than its own command message, that its *)
(* purge removed; N is never negative.                                     *)
C10_NoticeCount ==
    \A i \in Invocations :
        Notices(i) # <<>> =>
            /\ Notices(i)[1].args[1].n = Len(RemovedOthers(i))
            /\ Notices(i)[1].args[1].n >= 0

(* The part of C10 that a single invocation already decides. *)
C10_NeverNegative ==
    \A i \in Invocations :
        Notices(i) # <<>> => Notices(i)[1].args[1].n >= 0

=============================================================================
